---- MODULE Spec2Model ----
(***************************************************************************)
(* State-machine model of the wordle solver in src/src/main.rs: the        *)
(* knowledge state (InfoState), its consistency test and two update rules, *)
(* the rayon-parallel scorer, and the control loop of main.                *)
(*                                                                         *)
(* Letters are the u8 byte values the program handles ('a' = 97), the      *)
(* unknown-spot sentinel of the mask is the byte 0, and a Word is a tuple  *)
(* of 5 bytes.  Characters of an input line are one-character strings.     *)
(***************************************************************************)
EXTENDS Integers, Sequences, FiniteSets, TLC

VARIABLES pc, words, info, possible_answers, last_guess, line,
          scored_guesses, nguess, answer, simsteps

vars == <<pc, words, info, possible_answers, last_guess, line,
          scored_guesses, nguess, answer, simsteps>>

(***************************************************************************)
(* Bounds of the model.                                                    *)
(***************************************************************************)
\* longest word list read from the file "words"
MaxWords == 2
\* number of loop iterations of main that are explored
MaxRounds == 2
\* number of chained applications of the update rules in SpecSim
MaxSimSteps == 2

(***************************************************************************)
(* Program constants.                                                      *)
(***************************************************************************)
\* const A: u8 = 'a' as u8
A == 97
\* type Word = [u8; 5]; type Clue = [Info; 5]
WordLen == 5
\* struct LettersContained([LetterStatus; 26])
NumLetters == 26

Pos == 1..WordLen

(***************************************************************************)
(* The words used as file contents: lares, seals, mangy, batch, pithy.     *)
(***************************************************************************)
lares == <<108, 97, 114, 101, 115>>
seals == <<115, 101, 97, 108, 115>>
mangy == <<109, 97, 110, 103, 121>>
batch == <<98, 97, 116, 99, 104>>
pithy == <<112, 105, 116, 104, 121>>

Dict == {lares, seals, mangy, batch, pithy}

\* the value of `answer` when no hidden answer drives the clues
NoWord == <<>>

\* let best_initial_guess = "lares"
best_initial_guess == lares

(***************************************************************************)
(* Info::from_u8: decode one clue block; "panic" stands for the panic!     *)
(***************************************************************************)
from_u8_lenient(c) ==
    IF c = "g" THEN "Green"
    ELSE IF c = "y" THEN "Yellow"
    ELSE "Black"

from_u8(c) ==
    IF c = "x" \/ c = "b" THEN "Black"
    ELSE IF c = "g" THEN "Green"
    ELSE IF c = "y" THEN "Yellow"
    ELSE "panic"

\* read_clue panics when line[i] is out of bounds or from_u8 panics, i in 0..5
read_clue_panics(l) ==
    \E i \in Pos : i > Len(l) \/ from_u8(l[i]) = "panic"

\* array_init(|i| Info::from_u8(line[i]))
read_clue(l) == [i \in Pos |-> from_u8(l[i])]

(***************************************************************************)
(* LettersContained                                                        *)
(***************************************************************************)
u8_to_letter_index(x) == x - A

possibly_contains(letters, x) ==
    letters[u8_to_letter_index(x)] # "No"

mark_contains(letters, x) ==
    [letters EXCEPT ![u8_to_letter_index(x)] = "Yes"]

mark_not_contains_unknown(letters, x) ==
    [letters EXCEPT ![u8_to_letter_index(x)] = "Unknown"]

mark_not_contains(letters, x) ==
    [letters EXCEPT ![u8_to_letter_index(x)] = "No"]

(***************************************************************************)
(* InfoState                                                               *)
(***************************************************************************)
InfoState_new ==
    [mask |-> [i \in Pos |-> 0],
     letters |-> [k \in 0..(NumLetters - 1) |-> "Unknown"]]

consistent_letters_only(s, w) ==
    \A i \in Pos : possibly_contains(s.letters, w[i])

consistent(s, w) ==
    \A i \in Pos :
        IF s.mask[i] = 0
        THEN possibly_contains(s.letters, w[i])
        ELSE w[i] = s.mask[i]

\* the mask computed by update (lines 101-111)
update_mask(s, guess, c) ==
    [i \in Pos |->
        IF s.mask[i] # 0 THEN s.mask[i]
        ELSE IF c[i] = "Green" THEN guess[i] ELSE 0]

\* the loop `for i in 0..5 { match clue[i] ... }` of update, from position i on
RECURSIVE update_letters_rev(_, _, _, _)
update_letters_rev(letters, guess, c, i) ==
    IF i > WordLen THEN letters
    ELSE LET rest == update_letters_rev(letters, guess, c, i + 1)
         IN  IF c[i] = "Green" \/ c[i] = "Yellow"
             THEN mark_contains(rest, guess[i])
             ELSE mark_not_contains(rest, guess[i])

RECURSIVE update_letters(_, _, _, _)
update_letters(letters, guess, c, i) ==
    IF i > WordLen THEN letters
    ELSE update_letters(
            IF c[i] = "Green" \/ c[i] = "Yellow"
            THEN mark_contains(letters, guess[i])
            ELSE mark_not_contains(letters, guess[i]),
            guess, c, i + 1)

update_yellow_absent(s, guess, c) ==
    [mask |-> update_mask(s, guess, c),
     letters |-> update_letters(s.letters, guess,
                    [i \in Pos |-> IF c[i] = "Green" THEN "Green" ELSE "Black"], 1)]

update(s, guess, c) ==
    [mask |-> update_mask(s, guess, c),
     letters |-> update_letters(s.letters, guess, c, 1)]

\* c == answer[0] || c == answer[1] || ... || c == answer[4]
answer_has(ans, c) ==
    c = ans[1] \/ c = ans[2] \/ c = ans[3] \/ c = ans[4] \/ c = ans[5]

\* the loop of update_from_answer (lines 129-141), from position i on
RECURSIVE update_from_answer_letters(_, _, _, _)
update_from_answer_letters(letters, guess, ans, i) ==
    IF i > WordLen THEN letters
    ELSE update_from_answer_letters(
            IF answer_has(ans, guess[i])
            THEN mark_contains(letters, guess[i])
            ELSE mark_not_contains(letters, guess[i]),
            guess, ans, i + 1)

update_from_answer_mask(s, guess, ans) ==
    [i \in Pos |->
        IF s.mask[i] # 0 THEN s.mask[i]
        ELSE IF guess[i] = ans[i] THEN guess[i] ELSE 0]

update_from_answer_fresh_mask(s, guess, ans) ==
    [letters |-> update_from_answer_letters(s.letters, guess, ans, 1),
     mask |-> [i \in Pos |-> IF guess[i] = ans[i] THEN guess[i] ELSE 0]]

update_from_answer_green_only(s, guess, ans) ==
    [letters |-> update_letters(s.letters, guess,
                    [i \in Pos |-> IF guess[i] = ans[i] THEN "Green" ELSE "Black"], 1),
     mask |-> update_from_answer_mask(s, guess, ans)]

update_from_answer(s, guess, ans) ==
    [letters |-> update_from_answer_letters(s.letters, guess, ans, 1),
     mask |-> update_from_answer_mask(s, guess, ans)]

(***************************************************************************)
(* fn clue(guess, answer)                                                  *)
(***************************************************************************)
clue(guess, ans) ==
    [i \in Pos |->
        IF guess[i] = ans[i] THEN "Green"
        ELSE IF \E k \in Pos : ans[k] = guess[i] THEN "Yellow"
        ELSE "Black"]

(***************************************************************************)
(* The rayon reductions.  A parallel iterator over a slice is split into   *)
(* contiguous halves at a point the scheduler chooses, each half is        *)
(* reduced on its own, and the two results are combined, left operand      *)
(* first.  Each operator below yields the SET of results over every        *)
(* choice of split points.                                                 *)
(***************************************************************************)

\* possible_answers.par_iter().filter(|a| info.consistent(a)).map(|a| *a).collect()
RECURSIVE ParFilterUnordered(_, _)
ParFilterUnordered(s, ws) ==
    IF Len(ws) = 0 THEN {<<>>}
    ELSE IF Len(ws) = 1 THEN {IF consistent(s, ws[1]) THEN ws ELSE <<>>}
    ELSE UNION {
            UNION {{l \o r, r \o l} :
                    l \in ParFilterUnordered(s, SubSeq(ws, 1, k)),
                    r \in ParFilterUnordered(s, SubSeq(ws, k + 1, Len(ws)))}
            : k \in 1..(Len(ws) - 1)}

RECURSIVE ParFilter(_, _)
ParFilter(s, ws) ==
    IF Len(ws) = 0 THEN {<<>>}
    ELSE IF Len(ws) = 1 THEN {IF consistent(s, ws[1]) THEN ws ELSE <<>>}
    ELSE UNION {
            {l \o r :
                l \in ParFilter(s, SubSeq(ws, 1, k)),
                r \in ParFilter(s, SubSeq(ws, k + 1, Len(ws)))}
            : k \in 1..(Len(ws) - 1)}

\* possible_answers.par_iter().filter(|a| info.consistent(a)).count()
RECURSIVE ParCount(_, _)
ParCount(s, ws) ==
    IF Len(ws) = 0 THEN {0}
    ELSE IF Len(ws) = 1 THEN {IF consistent(s, ws[1]) THEN 1 ELSE 0}
    ELSE UNION {
            {l + r :
                l \in ParCount(s, SubSeq(ws, 1, k)),
                r \in ParCount(s, SubSeq(ws, k + 1, Len(ws)))}
            : k \in 1..(Len(ws) - 1)}

remaining_possibilities(s, guess, actual_answer, ws) ==
    ParCount(update_from_answer(s, guess, actual_answer), ws)

\* as.par_iter().map(|a| remaining_possibilities(info, guess, a, ws)).sum()
RECURSIVE ParSum(_, _, _, _)
ParSum(s, guess, as, ws) ==
    IF Len(as) = 0 THEN {0}
    ELSE IF Len(as) = 1 THEN remaining_possibilities(s, guess, as[1], ws)
    ELSE UNION {
            {l + r :
                l \in ParSum(s, guess, SubSeq(as, 1, k), ws),
                r \in ParSum(s, guess, SubSeq(as, k + 1, Len(as)), ws)}
            : k \in 1..(Len(as) - 1)}

unnormalized_expected_remaining_possibilities(s, guess, ws) ==
    ParSum(s, guess, ws, ws)

\* possible_answers.iter().map(|guess| (*guess, score)).collect(), first n items
RECURSIVE ScoredGuesses(_, _, _)
ScoredGuesses(s, ws, n) ==
    IF n = 0 THEN {<<>>}
    ELSE {Append(sg, <<ws[n], sc>>) :
            sg \in ScoredGuesses(s, ws, n - 1),
            sc \in unnormalized_expected_remaining_possibilities(s, ws[n], ws)}

\* the reduction operator of rayon's min_by_key: the right operand wins only
\* when its key is strictly smaller
min_key_last(a, b) == IF a[2] >= b[2] THEN b ELSE a

min_key_max(a, b) == IF a[2] < b[2] THEN b ELSE a

min_key(a, b) == IF a[2] > b[2] THEN b ELSE a

\* scored_guesses.par_iter().min_by_key(|(_, s)| *s), on a non-empty vector
RECURSIVE ParMinByKey(_)
ParMinByKey(sg) ==
    IF Len(sg) = 1 THEN {sg[1]}
    ELSE UNION {
            {min_key(l, r) :
                l \in ParMinByKey(SubSeq(sg, 1, k)),
                r \in ParMinByKey(SubSeq(sg, k + 1, Len(sg)))}
            : k \in 1..(Len(sg) - 1)}

(***************************************************************************)
(* The environment: the word-list file and the lines typed on stdin.       *)
(***************************************************************************)
\* the word lists the file "words" may hold: at least one record is pushed
WordLists == UNION {[1..n -> Dict] : n \in 1..MaxWords}

\* the lines of 5 blocks over x, g, y followed by the newline whose last
\* three blocks are alike
TypedLines ==
    {<<l[1], l[2], l[3], l[3], l[3], "\n">> : l \in [1..3 -> {"x", "g", "y"}]}

\* lines that use the alternative Black block 'b', lines with a character
\* that is no block, a short line, and the empty line read at end of input
OtherLines ==
    { <<"b", "b", "b", "b", "b", "\n">>,
      <<"b", "g", "y", "x", "b", "\n">>,
      <<"g", "g", "q", "g", "g", "\n">>,
      <<"x", "x", "x", "x", "G", "\n">>,
      <<"x", "x", "\n">>,
      <<>> }

Lines == TypedLines \cup OtherLines

\* the line a truthful player types for a clue
ClueLine(c) ==
    [i \in 1..(WordLen + 1) |->
        IF i > WordLen THEN "\n"
        ELSE IF c[i] = "Green" THEN "g"
        ELSE IF c[i] = "Yellow" THEN "y"
        ELSE "x"]

(***************************************************************************)
(* main: the state after construction, and one iteration of the loop.      *)
(***************************************************************************)
Init ==
    /\ pc = "AwaitingClue"
    /\ words \in WordLists
    /\ info = InfoState_new
    /\ possible_answers = words
    /\ last_guess = best_initial_guess
    /\ line = <<>>
    /\ scored_guesses = <<>>
    /\ nguess = 0
    /\ answer = NoWord
    /\ simsteps = 0

Round(input) ==
    /\ pc = "AwaitingClue"
    /\ nguess < MaxRounds
    /\ line' = input
    /\ UNCHANGED <<words, answer, simsteps>>
    /\ IF read_clue_panics(input)
       THEN /\ pc' = "aborted"
            /\ UNCHANGED <<info, possible_answers, last_guess,
                           scored_guesses, nguess>>
       ELSE LET new_info == update(info, last_guess, read_clue(input))
            IN  /\ info' = new_info
                /\ \E filtered \in ParFilter(new_info, possible_answers) :
                     /\ possible_answers' = filtered
                     /\ \E sg \in ScoredGuesses(new_info, filtered, Len(filtered)) :
                          /\ scored_guesses' = sg
                          /\ IF Len(sg) = 0
                             THEN /\ pc' = "aborted"
                                  /\ UNCHANGED <<last_guess, nguess>>
                             ELSE \E next_guess \in ParMinByKey(sg) :
                                    /\ last_guess' = next_guess[1]
                                    /\ nguess' = nguess + 1
                                    /\ pc' = "AwaitingClue"

Next == \E input \in Lines : Round(input)

Spec == Init /\ [][Next]_vars

(***************************************************************************)
(* The loop driven by a truthful player: a hidden answer of the word list  *)
(* is fixed and every line typed is clue(last_guess, answer).              *)
(***************************************************************************)
InitTruth ==
    /\ pc = "AwaitingClue"
    /\ words \in WordLists
    /\ answer \in {words[i] : i \in 1..Len(words)}
    /\ info = InfoState_new
    /\ possible_answers = words
    /\ last_guess = best_initial_guess
    /\ line = <<>>
    /\ scored_guesses = <<>>
    /\ nguess = 0
    /\ simsteps = 0

TruthfulRound == Round(ClueLine(clue(last_guess, answer)))

NextTruth == TruthfulRound

SpecTruth == InitTruth /\ [][NextTruth]_vars

(***************************************************************************)
(* The two update rules as pure functions, applied in a chain from the     *)
(* empty knowledge state to guesses, clues and answers of bounded sets.    *)
(***************************************************************************)
SimWords == {lares, seals, mangy}

InitSim ==
    /\ pc = "new"
    /\ words = <<>>
    /\ info = InfoState_new
    /\ possible_answers = <<>>
    /\ last_guess = best_initial_guess
    /\ line = <<>>
    /\ scored_guesses = <<>>
    /\ nguess = 0
    /\ answer = NoWord
    /\ simsteps = 0

SimUpdate ==
    /\ simsteps < MaxSimSteps
    /\ \E guess \in SimWords, l \in TypedLines :
         /\ info' = update(info, guess, read_clue(l))
         /\ last_guess' = guess
         /\ line' = l
         /\ answer' = NoWord
    /\ pc' = "update"
    /\ simsteps' = simsteps + 1
    /\ UNCHANGED <<words, possible_answers, scored_guesses, nguess>>

SimUpdateFromAnswer ==
    /\ simsteps < MaxSimSteps
    /\ \E guess \in SimWords, ans \in SimWords :
         /\ info' = update_from_answer(info, guess, ans)
         /\ last_guess' = guess
         /\ answer' = ans
    /\ line' = <<>>
    /\ pc' = "update_from_answer"
    /\ simsteps' = simsteps + 1
    /\ UNCHANGED <<words, possible_answers, scored_guesses, nguess>>

NextSim == SimUpdate \/ SimUpdateFromAnswer

SpecSim == InitSim /\ [][NextSim]_vars

(***************************************************************************)
(* Operators used to state the properties.                                 *)
(***************************************************************************)
InPool(w) == \E j \in 1..Len(possible_answers) : possible_answers[j] = w

Distinct(ws) == \A i, j \in 1..Len(ws) : ws[i] = ws[j] => i = j

LettersOf(w) == {w[i] : i \in Pos}

\* s is t with some of its elements removed, the others kept in order
IsSubSeq(s, t) ==
    \E f \in [1..Len(s) -> 1..Len(t)] :
        /\ \A i, j \in 1..Len(s) : i < j => f[i] < f[j]
        /\ \A i \in 1..Len(s) : s[i] = t[f[i]]

\* the number of words of ws consistent with s, counted sequentially
SeqCount(s, ws) == Cardinality({j \in 1..Len(ws) : consistent(s, ws[j])})

RECURSIVE SeqScoreUpTo(_, _, _, _)
SeqScoreUpTo(s, g, ws, n) ==
    IF n = 0 THEN 0
    ELSE SeqScoreUpTo(s, g, ws, n - 1)
         + SeqCount(update_from_answer(s, g, ws[n]), ws)

\* the score of guess g: the sum over every a in ws of the number of words of
\* ws consistent with s.update_from_answer(g, a)
SeqScore(s, g, ws) == SeqScoreUpTo(s, g, ws, Len(ws))

\* a character outside {x, b, g, y} among the first 5 positions of the line
BadChar(l) ==
    \E i \in Pos : i <= Len(l) /\ l[i] \notin {"x", "b", "g", "y"}

AllBlack(l) == Len(l) >= WordLen /\ \A i \in Pos : l[i] \in {"x", "b"}

AllGreen(l) == Len(l) >= WordLen /\ \A i \in Pos : l[i] = "g"

\* a round has completed and emitted a guess
Emitted == pc = "AwaitingClue" /\ nguess >= 1

(***************************************************************************)
(* Properties                                                              *)
(***************************************************************************)

\* C1: the candidate pool after a round is an order-preserving sub-sequence
\* of the pool before it: no word is added or reordered, and the pool size
\* never increases.
C1_PoolSubsequence ==
    [][/\ IsSubSeq(possible_answers', possible_answers)
       /\ Len(possible_answers') <= Len(possible_answers)]_vars

\* a round has shrunk the pool and left words in it
C1_Witness ==
    /\ Emitted
    /\ Len(possible_answers) < Len(words)
    /\ possible_answers # <<>>

\* C2: once mask[i] holds a confirmed letter, every later state produced by
\* update or update_from_answer has the same letter at mask[i].
C2_MaskMonotone ==
    [][\A i \in Pos : info.mask[i] # 0 => info'.mask[i] = info.mask[i]]_vars

\* update_from_answer was applied to a state with a confirmed letter that
\* differs from the guess's letter at that position, and the letter stayed
C2_Witness ==
    /\ pc = "update_from_answer"
    /\ simsteps >= 2
    /\ \E i \in Pos : info.mask[i] # 0 /\ info.mask[i] # last_guess[i]

\* C3: after every round with a non-empty filtered pool, the emitted guess is
\* a member of the filtered pool and its score, computed with the state
\* already updated by the round's clue, is at most that of every pool member.
C3_GuessIsMinimal ==
    Emitted =>
        /\ InPool(last_guess)
        /\ \A j \in 1..Len(possible_answers) :
             SeqScore(info, last_guess, possible_answers)
                <= SeqScore(info, possible_answers[j], possible_answers)

\* the emitted guess is not the first pool word and scores strictly less
C3_Witness ==
    /\ Emitted
    /\ Len(possible_answers) >= 2
    /\ last_guess # possible_answers[1]
    /\ SeqScore(info, last_guess, possible_answers)
         < SeqScore(info, possible_answers[1], possible_answers)

C5_FatalAbort ==
    [][/\ pc # "aborted"
       /\ (BadChar(line') \/ possible_answers' = <<>>)
            => (pc' = "aborted" /\ nguess' = nguess /\ last_guess' = last_guess)]_vars

\* a later round aborted on a bad character, after a guess had been emitted
C5_Witness ==
    /\ pc = "aborted"
    /\ BadChar(line)
    /\ nguess >= 1
    /\ possible_answers # <<>>

\* C6 as stated: after a round whose clue is all-Black, no pool word contains
\* any letter of the guess the clue was given for.
C6_AllBlackRemovesLetters ==
    [][(pc = "AwaitingClue" /\ AllBlack(line')) =>
          \A j \in 1..Len(possible_answers') :
             LettersOf(possible_answers'[j]) \cap LettersOf(last_guess) = {}]_vars

\* C6 amended: after a round whose clue is all-Black, no pool word has a
\* letter of the guess at a position whose mask entry is unconfirmed; with no
\* confirmed position no pool word contains any letter of the guess.
C6_AllBlackRemovesUnconfirmed ==
    [][(pc = "AwaitingClue" /\ AllBlack(line')) =>
          /\ info'.mask = info.mask
          /\ \A j \in 1..Len(possible_answers') : \A i \in Pos :
                info'.mask[i] = 0 =>
                    possible_answers'[j][i] \notin LettersOf(last_guess)
          /\ (\A i \in Pos : info.mask[i] = 0) =>
                \A j \in 1..Len(possible_answers') :
                    LettersOf(possible_answers'[j]) \cap LettersOf(last_guess) = {}]_vars

\* an all-Black round left words in the pool
C6_Witness ==
    /\ Emitted
    /\ AllBlack(line)
    /\ possible_answers # <<>>

\* C7: s.update_from_answer(guess, answer) equals
\* s.update(guess, clue(guess, answer)), mask and letters alike.
C7_SimulatedAgreesWithReal ==
    [][pc' = "update_from_answer" =>
          info' = update(info, last_guess', clue(last_guess', answer'))]_vars

\* update_from_answer was applied to a non-empty state with a guess whose
\* clue against the answer has a Green, a Yellow and a Black block
C7_Witness ==
    /\ pc = "update_from_answer"
    /\ simsteps >= 2
    /\ last_guess # answer
    /\ \A m \in {"Green", "Yellow", "Black"} :
          \E i \in Pos : clue(last_guess, answer)[i] = m

\* C8: in update(guess, clue) the status of every letter c of guess is set by
\* the marker at the highest position of c alone, and the status of every
\* letter not in guess is unchanged.
C8_LastOccurrenceWins ==
    [][pc' = "update" =>
          \A x \in A..(A + NumLetters - 1) :
             LET P == {i \in Pos : last_guess'[i] = x}
                 top == CHOOSE i \in P : \A k \in P : k <= i
             IN  IF P = {}
                 THEN info'.letters[x - A] = info.letters[x - A]
                 ELSE info'.letters[x - A] =
                        (IF read_clue(line')[top] \in {"Green", "Yellow"}
                         THEN "Yes" ELSE "No")]_vars

\* a guess with a letter marked Green at an earlier and Black at a later
\* position: the letter ends up absent
C8_Witness ==
    /\ pc = "update"
    /\ \E i, j \in Pos :
         /\ i < j
         /\ last_guess[i] = last_guess[j]
         /\ \A k \in Pos : k > j => last_guess[k] # last_guess[j]
         /\ read_clue(line)[i] = "Green"
         /\ read_clue(line)[j] = "Black"
         /\ info.letters[last_guess[j] - A] = "No"

\* C9: with every clue derived by clue(last_guess, answer) from a fixed
\* answer of the initial pool, the answer stays in the pool after every
\* round and the loop never aborts.
C9_AnswerSurvives ==
    /\ InPool(answer)
    /\ pc # "aborted"

\* a truthful round removed a word and kept the answer, which was not the
\* word guessed
C9_Witness ==
    /\ Emitted
    /\ InPool(answer)
    /\ Len(possible_answers) < Len(words)
    /\ \E i \in 1..Len(words) : words[i] # answer

\* C10: if the last guess g is in the pool of distinct words and the clue is
\* all-Green, the round leaves the pool at exactly g, emits g again and
\* returns to awaiting a clue.
C10_SolvedLoopsForever ==
    [][(/\ pc = "AwaitingClue"
        /\ InPool(last_guess)
        /\ Distinct(possible_answers)
        /\ AllGreen(line')) =>
          /\ possible_answers' = <<last_guess>>
          /\ last_guess' = last_guess
          /\ nguess' = nguess + 1
          /\ pc' = "AwaitingClue"]_vars

\* the all-Green clue was given with the pool already narrowed to the guess
C10_Witness ==
    /\ Emitted
    /\ nguess >= 2
    /\ AllGreen(line)
    /\ Len(words) >= 2
    /\ Distinct(words)
    /\ possible_answers = <<last_guess>>

====
